---- MODULE Spec2Model ----
(***************************************************************************)
(* A model of haxumcp.py: the four tool handlers (get_alerts,              *)
(* get_forecast, get_azure_price, count_chinese_characters) and the two    *)
(* upstream fetchers they drive (make_nws_request,                         *)
(* make_azure_price_request).                                              *)
(*                                                                         *)
(* Python values are represented as follows.                               *)
(*   dict        a record (a function on strings); {} is EmptyDict         *)
(*   None        the record None                                           *)
(*   list        a sequence                                                *)
(*   str         where the value may also be None (a URL, a handler's      *)
(*               return value): Str(t), t a sequence of string fragments   *)
(*               whose concatenation is the string; "" is Str(<<>>).       *)
(*               Elsewhere (a JSON field that is only printed): a string.  *)
(* A call's completion is Return(v) or Raise(e), e an exception class.     *)
(* One atomic step of the model is the code a handler runs from one        *)
(* await of an upstream call to the next await or to its end.              *)
(***************************************************************************)
EXTENDS Integers, Sequences, FiniteSets, TLC

VARIABLES
    pc,             \* where the invoked handler is
    tool,           \* the handler that was invoked
    args,           \* its arguments
    fetches,        \* the upstream GETs issued so far, with their outcomes
    result,         \* the handler's return value, None until it returns
    raised,         \* the exception that left the handler, "none" if none
    forecast_url,   \* get_forecast's local
    all_items,      \* get_azure_price's locals
    next_page_url,
    page_count

vars == <<pc, tool, args, fetches, result, raised, forecast_url,
          all_items, next_page_url, page_count>>

----------------------------------------------------------------------------
(* Bounds of the model *)

MaxFeatures == 2
MaxPeriods == 6
MaxItemsPerPage == 2

----------------------------------------------------------------------------
(* Python values *)

None == [NoneType |-> TRUE]
EmptyDict == [k \in {} |-> k]
Str(t) == [str |-> t]

\* bool(v) for v None, a dict or a str
Truthy(v) == v # None /\ v # EmptyDict /\ v # Str(<<>>)

\* d.get(k, default)
Get(d, k, default) == IF k \in DOMAIN d THEN d[k] ELSE default

Return(v) == [exc |-> "none", ret |-> v]
Raise(e) == [exc |-> e, ret |-> None]

SeqsUpTo(S, n) == UNION {[1..k -> S] : k \in 0..n}

RECURSIVE Concat(_)
\* the concatenation of a sequence of sequences
Concat(ss) == IF ss = <<>> THEN <<>> ELSE Head(ss) \o Concat(Tail(ss))

RECURSIVE Join(_, _)
\* sep.join(texts), texts a sequence of fragment sequences
Join(texts, sep) ==
    IF texts = <<>> THEN <<>>
    ELSE IF Len(texts) = 1 THEN Head(texts)
    ELSE Head(texts) \o sep \o Join(Tail(texts), sep)

----------------------------------------------------------------------------
(* Constants of the program *)

NWS_API_BASE == "https://api.weather.gov"
USER_AGENT == "weather-app/1.0"
AZURE_PRICE_API_BASE == "https://prices.azure.com/api/retail/prices"
api_version == "2023-01-01-preview"
max_pages == 3
COUNT_URL == "https://haxufunctions.azurewebsites.net/api/http_trigger"

----------------------------------------------------------------------------
(* The HTTP layer: what one GET can come to.                               *)
(*   exc      the exception client.get raises, "none" if a response came   *)
(*   status   the response's status code                                   *)
(*   decodes  whether the response's body is JSON                          *)
(*   json     the decoded body (None is the JSON null)                     *)
(*   text     the body as text                                             *)

Exceptions == {"ConnectError", "ReadTimeout", "HTTPStatusError", "JSONDecodeError", "KeyError"}

\* isinstance(e, cls) for the exception classes the except clauses name
IsInstance(e, cls) ==
    \/ cls = "Exception"
    \/ cls = e
    \/ cls = "TimeoutException" /\ e = "ReadTimeout"

NoResponse(e) == [exc |-> e, status |-> 0, decodes |-> FALSE, json |-> None, text |-> ""]
Response(s, d, j, t) == [exc |-> "none", status |-> s, decodes |-> d, json |-> j, text |-> t]

\* Every outcome of a GET whose successful bodies are `bodies`; `sample` is
\* the body a non-2xx response carries.
HttpOutcomes(bodies, sample) ==
    {NoResponse(e) : e \in {"ConnectError", "ReadTimeout"}}
    \cup {Response(s, TRUE, sample, "error") : s \in {301, 404, 500}}
    \cup {Response(200, FALSE, None, "<html>")}
    \cup {Response(200, TRUE, b, "json") : b \in bodies \cup {None}}

is_success(http) == http.status \in 200..299

\* The body of both fetchers' try block: client.get, raise_for_status,
\* response.json()
TryGetJson(http) ==
    IF http.exc # "none" THEN Raise(http.exc)
    ELSE IF ~is_success(http) THEN Raise("HTTPStatusError")
    ELSE IF ~http.decodes THEN Raise("JSONDecodeError")
    ELSE Return(http.json)

\* A try block's completion r under the except clauses `clauses`, each of
\* which returns None
ExceptReturnNone(r, clauses) ==
    IF r.exc = "none" THEN r
    ELSE IF \E i \in DOMAIN clauses : IsInstance(r.exc, clauses[i]) THEN Return(None)
    ELSE r

NwsExceptClauses == <<"Exception">>

make_nws_request(url, http) == ExceptReturnNone(TryGetJson(http), NwsExceptClauses)

AzureExceptClausesNoCatchAll == <<"TimeoutException", "HTTPStatusError">>

AzureExceptClauses == <<"TimeoutException", "HTTPStatusError", "Exception">>

make_azure_price_request(url, http) == ExceptReturnNone(TryGetJson(http), AzureExceptClauses)

Fetch(fetcher, url, params, http, r) ==
    [fetcher |-> fetcher, url |-> url, params |-> params, http |-> http,
     exc |-> r.exc, ret |-> r.ret]

----------------------------------------------------------------------------
(* get_alerts *)

StateCodes == {"CA", "ZZ"}

Features ==
    { [properties |-> [event |-> "Flood Warning", areaDesc |-> "Kern County",
                       severity |-> "Severe", description |-> "Flooding expected",
                       instruction |-> "Move to higher ground"]],
      [properties |-> [event |-> "Heat Advisory"]],
      [id |-> "urn:oid:1"] }

AlertBodies ==
    {EmptyDict, [title |-> "alerts"]}
    \cup {[features |-> fs] : fs \in SeqsUpTo(Features, MaxFeatures)}

AlertHttp == HttpOutcomes(AlertBodies, [features |-> <<>>])

format_alert_raises(feature) == "properties" \notin DOMAIN feature

format_alert(feature) ==
    LET props == feature["properties"] IN
    << "\nEvent: ", Get(props, "event", "Unknown"),
       "\nArea: ", Get(props, "areaDesc", "Unknown"),
       "\nSeverity: ", Get(props, "severity", "Unknown"),
       "\nDescription: ", Get(props, "description", "No description available"),
       "\nInstructions: ", Get(props, "instruction", "No specific instructions provided"),
       "\n" >>

NoAlertDataOrEmpty(data) ==
    ~Truthy(data) \/ "features" \notin DOMAIN data \/ data["features"] = <<>>

\* if not data or "features" not in data
NoAlertData(data) == ~Truthy(data) \/ "features" \notin DOMAIN data

\* if not data["features"]
NoFeatures(data) == data["features"] = <<>>

\* get_alerts from the return of its fetch on
get_alerts_rest(data) ==
    IF NoAlertData(data)
    THEN Return(Str(<<"Unable to fetch alerts or no alerts found.">>))
    ELSE IF NoFeatures(data)
    THEN Return(Str(<<"No active alerts for this state.">>))
    ELSE IF \E i \in DOMAIN data["features"] : format_alert_raises(data["features"][i])
    THEN Raise("KeyError")
    ELSE Return(Str(Join([i \in DOMAIN data["features"] |-> format_alert(data["features"][i])],
                         <<"\n---\n">>)))

alerts_url(state) == Str(<<NWS_API_BASE, "/alerts/active/area/", state>>)

----------------------------------------------------------------------------
(* get_forecast *)

\* A float argument: sign, integer part, one decimal digit
Latitudes == {[neg |-> FALSE, int |-> 38, frac |-> 5]}
Longitudes == {[neg |-> TRUE, int |-> 122, frac |-> 0], [neg |-> FALSE, int |-> 0, frac |-> 0]}

\* str(x) of a float, as f"{x}" prints it
FloatStr(x) == (IF x.neg THEN <<"-">> ELSE <<>>) \o <<ToString(x.int), ".", ToString(x.frac)>>

points_url(latitude, longitude) ==
    Str(<<NWS_API_BASE, "/points/">> \o FloatStr(latitude) \o <<",">> \o FloatStr(longitude))

ForecastUrls ==
    { Str(<<NWS_API_BASE, "/gridpoints/MTR/85,105/forecast">>),
      Str(<<NWS_API_BASE, "/gridpoints/LOX/1,2/forecast">>) }

PointsBodies ==
    {EmptyDict, [id |-> "point"], [properties |-> EmptyDict]}
    \cup {[properties |-> [forecast |-> u]] : u \in ForecastUrls}

PointsHttp == HttpOutcomes(PointsBodies, [properties |-> [forecast |-> CHOOSE u \in ForecastUrls : TRUE]])

Periods ==
    { [name |-> "Tonight", temperature |-> 55, temperatureUnit |-> "F",
       windSpeed |-> "5 mph", windDirection |-> "NW", detailedForecast |-> "Clear"],
      [name |-> "Friday", temperature |-> 71, temperatureUnit |-> "F",
       windSpeed |-> "10 mph", windDirection |-> "S", detailedForecast |-> "Sunny"],
      [name |-> "Saturday"] }

ForecastBodies ==
    {EmptyDict, [type |-> "Feature"], [properties |-> [units |-> "us"]]}
    \cup {[properties |-> [periods |-> ps]] : ps \in SeqsUpTo(Periods, MaxPeriods)}

ForecastHttp == HttpOutcomes(ForecastBodies, [properties |-> [periods |-> <<>>]])

PeriodKeys == {"name", "temperature", "temperatureUnit", "windSpeed", "windDirection", "detailedForecast"}

format_period_raises(period) == ~(PeriodKeys \subseteq DOMAIN period)

\* The character U+00B0 of get_forecast's f-string
DEGREE_SIGN == "<U+00B0>"

format_period(period) ==
    << "\n", period["name"], ":\nTemperature: ", ToString(period["temperature"]),
       DEGREE_SIGN, period["temperatureUnit"],
       "\nWind: ", period["windSpeed"], " ", period["windDirection"],
       "\nForecast: ", period["detailedForecast"], "\n" >>

FirstAll(periods) == periods

\* periods[:5]
First5(periods) == SubSeq(periods, 1, IF Len(periods) < 5 THEN Len(periods) ELSE 5)

PointsAbsent(points_data) == ~Truthy(points_data)

\* get_forecast from the return of its first fetch to its second fetch:
\* Return(forecast_url) stands for going on to fetch forecast_url
get_forecast_points(points_data) ==
    IF PointsAbsent(points_data)
    THEN [next |-> "return", val |-> Return(Str(<<"Unable to fetch forecast data for this location.">>))]
    ELSE IF "properties" \notin DOMAIN points_data
            \/ "forecast" \notin DOMAIN points_data["properties"]
    THEN [next |-> "return", val |-> Raise("KeyError")]
    ELSE [next |-> "fetch", val |-> Return(points_data["properties"]["forecast"])]

\* get_forecast from the return of its second fetch on
get_forecast_rest(forecast_data) ==
    IF ~Truthy(forecast_data)
    THEN Return(Str(<<"Unable to fetch detailed forecast.">>))
    ELSE IF "properties" \notin DOMAIN forecast_data
            \/ "periods" \notin DOMAIN forecast_data["properties"]
    THEN Raise("KeyError")
    ELSE LET shown == First5(forecast_data["properties"]["periods"]) IN
         IF \E i \in DOMAIN shown : format_period_raises(shown[i])
         THEN Raise("KeyError")
         ELSE Return(Str(Join([i \in DOMAIN shown |-> format_period(shown[i])], <<"\n---\n">>)))

----------------------------------------------------------------------------
(* get_azure_price *)

\* A filter expression is a sequence of characters
FilterExpressions == { <<"a", " ", "e", "q", " ", "'", "b", "'">>, <<"x", "/", "y">> }

\* urllib.parse.quote leaves these unchanged (the letters, digits and _.-~
\* of the model's alphabet, and its default safe character "/")
QuoteSafe == {"a", "b", "e", "q", "x", "y", "/"}

\* The percent-encoding of the other characters of the model's alphabet
PercentEncoded(c) == CASE c = " " -> "%20" [] c = "'" -> "%27"

\* urllib.parse.quote(s)
quote(s) == [i \in DOMAIN s |-> IF s[i] \in QuoteSafe THEN s[i] ELSE PercentEncoded(s[i])]

base_url(filter_expression) ==
    Str(<<AZURE_PRICE_API_BASE, "?api-version=", api_version, "&$filter=">>
        \o quote(filter_expression))

Items ==
    { [productName |-> "Virtual Machines Dv3 Series", skuName |-> "D2 v3",
       retailPrice |-> 96, unitOfMeasure |-> "1 Hour", armRegionName |-> "eastus"],
      [skuName |-> "D2 v3 Spot", retailPrice |-> 19] }

\* The values a page's NextPageLink takes: null (a missing NextPageLink
\* reads as ""), the first page's URL again (a cursor that cycles), the URLs
\* of two further pages
Cursors(first_url) ==
    {None, first_url,
     Str(<<AZURE_PRICE_API_BASE, "?$skip=100">>), Str(<<AZURE_PRICE_API_BASE, "?$skip=200">>)}

PriceBodies(first_url) ==
    {EmptyDict}
    \cup {[Items |-> is] : is \in SeqsUpTo(Items, MaxItemsPerPage)}
    \cup {[NextPageLink |-> c] : c \in Cursors(first_url)}
    \cup {[Items |-> is, NextPageLink |-> c] :
              is \in SeqsUpTo(Items, MaxItemsPerPage), c \in Cursors(first_url)}

PriceHttp(first_url) ==
    HttpOutcomes(PriceBodies(first_url),
                 [Items |-> <<CHOOSE i \in Items : TRUE>>, NextPageLink |-> first_url])

LoopConditionNoCap(url, count) == Truthy(url)

\* while next_page_url and page_count < max_pages
LoopCondition(url, count) == Truthy(url) /\ count < max_pages

ExtendOverwrite(items, data) == IF "Items" \in DOMAIN data THEN data["Items"] ELSE items

\* if "Items" in data: all_items.extend(data["Items"])
Extend(items, data) == IF "Items" \in DOMAIN data THEN items \o data["Items"] ELSE items

price_info(item) ==
    (IF "productName" \in DOMAIN item THEN << <<"Product: ", item["productName"]>> >> ELSE <<>>)
    \o (IF "skuName" \in DOMAIN item THEN << <<"SKU: ", item["skuName"]>> >> ELSE <<>>)
    \o (IF "retailPrice" \in DOMAIN item
        THEN << <<"Price: ", ToString(item["retailPrice"]), " USD">> >> ELSE <<>>)
    \o (IF "unitOfMeasure" \in DOMAIN item THEN << <<"Per: ", item["unitOfMeasure"]>> >> ELSE <<>>)
    \o (IF "armRegionName" \in DOMAIN item THEN << <<"Region: ", item["armRegionName"]>> >> ELSE <<>>)

summary_all(n) == <<"Found ", ToString(n), " pricing items (showing all)">>

summary_limited(n) ==
    <<"Found ", ToString(n), " pricing items (limited to ", ToString(max_pages), " pages)">>

price_list(items) ==
    <<"\n\n">> \o Join([i \in DOMAIN items |-> Join(price_info(items[i]), <<"\n">>)],
                       <<"\n\n---\n\n">>)

NoItemsWhenNoPage(items, count) == count = 0

\* if not all_items
NoItems(items, count) == items = <<>>

\* get_azure_price from the end of its loop on
get_azure_price_rest(items, url, count) ==
    IF NoItems(items, count)
    THEN Str(<<"Unable to fetch Azure price data for this filter expression or no results found.">>)
    ELSE Str((IF count >= max_pages /\ Truthy(url)
              THEN summary_limited(Len(items))
              ELSE summary_all(Len(items)))
             \o price_list(items))

\* One pass of get_azure_price's loop, whose fetch came to completion r,
\* and what follows it up to the next fetch or the return
get_azure_price_pass(items, url, count, r) ==
    LET count1 == count + 1
        data == r.ret
    IN  IF r.exc # "none"
        THEN [next |-> "return", val |-> r,
              all_items |-> items, next_page_url |-> url, page_count |-> count1]
        ELSE IF ~Truthy(data)
        THEN [next |-> "return", val |-> Return(get_azure_price_rest(items, url, count1)),
              all_items |-> items, next_page_url |-> url, page_count |-> count1]
        ELSE LET items1 == Extend(items, data)
                 url1 == Get(data, "NextPageLink", Str(<<>>))
             IN  IF LoopCondition(url1, count1)
                 THEN [next |-> "fetch", val |-> Return(None),
                       all_items |-> items1, next_page_url |-> url1, page_count |-> count1]
                 ELSE [next |-> "return",
                       val |-> Return(get_azure_price_rest(items1, url1, count1)),
                       all_items |-> items1, next_page_url |-> url1, page_count |-> count1]

----------------------------------------------------------------------------
(* count_chinese_characters *)

Texts == {"nihao", "hello shijie"}

\* str(e)
StrOfException(e) == e

\* count_chinese_characters from its GET on
count_chinese_characters_rest(http) ==
    IF http.exc # "none"
    THEN Return(Str(<<"Error counting Chinese characters: ", StrOfException(http.exc)>>))
    ELSE IF ~is_success(http)
    THEN Return(Str(<<"Error counting Chinese characters: ", StrOfException("HTTPStatusError")>>))
    ELSE Return(Str(<<"Chinese character count: ", http.text>>))

CountHttp ==
    {NoResponse(e) : e \in {"ConnectError", "ReadTimeout"}}
    \cup {Response(s, FALSE, None, "error") : s \in {404, 500}}
    \cup {Response(200, FALSE, None, t) : t \in {"0", "2"}}

----------------------------------------------------------------------------
(* The state machine: one invocation of one tool *)

Init ==
    /\ pc = "idle"
    /\ tool = "none"
    /\ args = EmptyDict
    /\ fetches = <<>>
    /\ result = None
    /\ raised = "none"
    /\ forecast_url = None
    /\ all_items = <<>>
    /\ next_page_url = None
    /\ page_count = 0

\* The handler ends with completion c: it returns c.ret or raises c.exc
Finish(c) ==
    /\ pc' = "done"
    /\ result' = c.ret
    /\ raised' = c.exc

price_locals == <<all_items, next_page_url, page_count>>

call_get_alerts ==
    /\ pc = "idle"
    /\ \E state \in StateCodes : args' = [state |-> state]
    /\ tool' = "get_alerts"
    /\ pc' = "alerts_fetch"
    /\ UNCHANGED <<fetches, result, raised, forecast_url, price_locals>>

get_alerts ==
    /\ pc = "alerts_fetch"
    /\ \E http \in AlertHttp :
        LET url == alerts_url(args["state"])
            r == make_nws_request(url, http)
        IN  /\ fetches' = Append(fetches, Fetch("make_nws_request", url, EmptyDict, http, r))
            /\ Finish(IF r.exc # "none" THEN r ELSE get_alerts_rest(r.ret))
    /\ UNCHANGED <<tool, args, forecast_url, price_locals>>

call_get_forecast ==
    /\ pc = "idle"
    /\ \E latitude \in Latitudes, longitude \in Longitudes :
        args' = [latitude |-> latitude, longitude |-> longitude]
    /\ tool' = "get_forecast"
    /\ pc' = "forecast_points"
    /\ UNCHANGED <<fetches, result, raised, forecast_url, price_locals>>

get_forecast_first ==
    /\ pc = "forecast_points"
    /\ \E http \in PointsHttp :
        LET url == points_url(args["latitude"], args["longitude"])
            r == make_nws_request(url, http)
            g == IF r.exc # "none" THEN [next |-> "return", val |-> r]
                 ELSE get_forecast_points(r.ret)
        IN  /\ fetches' = Append(fetches, Fetch("make_nws_request", url, EmptyDict, http, r))
            /\ IF g.next = "return"
               THEN Finish(g.val) /\ UNCHANGED forecast_url
               ELSE /\ forecast_url' = g.val.ret
                    /\ pc' = "forecast_fetch"
                    /\ UNCHANGED <<result, raised>>
    /\ UNCHANGED <<tool, args, price_locals>>

get_forecast_second ==
    /\ pc = "forecast_fetch"
    /\ \E http \in ForecastHttp :
        LET r == make_nws_request(forecast_url, http)
        IN  /\ fetches' = Append(fetches, Fetch("make_nws_request", forecast_url, EmptyDict, http, r))
            /\ Finish(IF r.exc # "none" THEN r ELSE get_forecast_rest(r.ret))
    /\ UNCHANGED <<tool, args, forecast_url, price_locals>>

call_get_azure_price ==
    /\ pc = "idle"
    /\ \E filter_expression \in FilterExpressions :
        /\ args' = [filter_expression |-> filter_expression]
        /\ all_items' = <<>>
        /\ next_page_url' = base_url(filter_expression)
        /\ page_count' = 0
        /\ IF LoopCondition(base_url(filter_expression), 0)
           THEN pc' = "price_fetch" /\ UNCHANGED <<result, raised>>
           ELSE Finish(Return(get_azure_price_rest(<<>>, base_url(filter_expression), 0)))
    /\ tool' = "get_azure_price"
    /\ UNCHANGED <<fetches, forecast_url>>

get_azure_price ==
    /\ pc = "price_fetch"
    /\ \E http \in PriceHttp(base_url(args["filter_expression"])) :
        LET r == make_azure_price_request(next_page_url, http)
            p == get_azure_price_pass(all_items, next_page_url, page_count, r)
        IN  /\ fetches' = Append(fetches, Fetch("make_azure_price_request", next_page_url,
                                                EmptyDict, http, r))
            /\ all_items' = p.all_items
            /\ next_page_url' = p.next_page_url
            /\ page_count' = p.page_count
            /\ IF p.next = "return"
               THEN Finish(p.val)
               ELSE pc' = "price_fetch" /\ UNCHANGED <<result, raised>>
    /\ UNCHANGED <<tool, args, forecast_url>>

call_count_chinese_characters ==
    /\ pc = "idle"
    /\ \E text \in Texts : args' = [text |-> text]
    /\ tool' = "count_chinese_characters"
    /\ pc' = "count_fetch"
    /\ UNCHANGED <<fetches, result, raised, forecast_url, price_locals>>

count_chinese_characters ==
    /\ pc = "count_fetch"
    /\ \E http \in CountHttp :
        /\ fetches' = Append(fetches, Fetch("client.get", Str(<<COUNT_URL>>),
                                            [text |-> args["text"]], http, Return(None)))
        /\ Finish(count_chinese_characters_rest(http))
    /\ UNCHANGED <<tool, args, forecast_url, price_locals>>

Next ==
    \/ call_get_alerts
    \/ get_alerts
    \/ call_get_forecast
    \/ get_forecast_first
    \/ get_forecast_second
    \/ call_get_azure_price
    \/ get_azure_price
    \/ call_count_chinese_characters
    \/ count_chinese_characters

Spec == Init /\ [][Next]_vars

----------------------------------------------------------------------------
(* Properties *)

Done(t) == tool = t /\ pc = "done"

Returned(t) == Done(t) /\ raised = "none"

\* What the upstream gave as an absent result: no response, a non-2xx
\* status, a body that is not JSON, or the JSON null
UpstreamAbsent(http) ==
    \/ http.exc # "none"
    \/ http.status < 200
    \/ http.status > 299
    \/ ~http.decodes
    \/ http.json = None

\* The next cursor the i-th fetched page carries, "" if none
CursorOf(i) == Get(fetches[i].ret, "NextPageLink", Str(<<>>))

\* The items of the first k fetched pages, in page order
ItemsOfPages(k) == Concat([i \in 1..k |-> Get(fetches[i].ret, "Items", <<>>)])

HasSummary(text, summary) ==
    /\ Len(text.str) >= Len(summary)
    /\ SubSeq(text.str, 1, Len(summary)) = summary

NoResultsMessage ==
    Str(<<"Unable to fetch Azure price data for this filter expression or no results found.">>)

\* C3: no exception crosses a handler's boundary: whatever the upstream
\* gives, a handler that has ended has returned a text and raised nothing.
C3_NoExceptionCrossesHandler ==
    /\ raised = "none"
    /\ pc = "done" => result # None

\* C4: the fetchers never raise to their caller; they return None on a
\* transport error, a timeout, a non-2xx status or an undecodable body, and
\* the parsed JSON body exactly when the status is 2xx and the body decodes.
C4_FetchersNeverRaise ==
    \A i \in DOMAIN fetches :
        LET f == fetches[i] IN
        f.fetcher \in {"make_nws_request", "make_azure_price_request"} =>
            /\ f.exc = "none"
            /\ f.ret = IF f.http.exc = "none" /\ f.http.status \in 200..299 /\ f.http.decodes
                       THEN f.http.json
                       ELSE None

\* A price lookup whose first page was parsed and whose second fetch timed out
C4_Witness ==
    /\ tool = "get_azure_price"
    /\ Len(fetches) = 2
    /\ fetches[1].ret = fetches[1].http.json
    /\ Truthy(fetches[1].ret)
    /\ fetches[2].http.exc = "ReadTimeout"
    /\ fetches[2].ret = None
    /\ fetches[2].exc = "none"

\* C5: with at least one item collected, the summary reads "limited to 3
\* pages" if and only if the loop stopped at the third page with that page's
\* response carrying a next cursor; however else the loop stops (a page
\* without a cursor, an absent fetch on any page) it reads "showing all".
C5_LimitedIffCapWithCursor ==
    (Returned("get_azure_price") /\ all_items # <<>>) =>
        LET n == Len(fetches)
            capped == /\ n = max_pages
                      /\ Truthy(fetches[n].ret)
                      /\ Truthy(CursorOf(n))
        IN  IF capped
            THEN HasSummary(result, summary_limited(Len(all_items)))
            ELSE HasSummary(result, summary_all(Len(all_items)))

C7_AbsentPageStopsWithPartial ==
    /\ \A j \in DOMAIN fetches :
        (tool = "get_azure_price" /\ ~Truthy(fetches[j].ret)) =>
            /\ j = Len(fetches)
            /\ Returned("get_azure_price")
            /\ all_items = ItemsOfPages(j - 1)
            /\ IF ItemsOfPages(j - 1) = <<>>
               THEN result = NoResultsMessage
               ELSE \E summary \in {summary_all(Len(ItemsOfPages(j - 1))),
                                    summary_limited(Len(ItemsOfPages(j - 1)))} :
                        result = Str(summary \o price_list(ItemsOfPages(j - 1)))
    /\ Done("get_azure_price") =>
            (result = NoResultsMessage <=> ItemsOfPages(Len(fetches)) = <<>>)

\* The second page's fetch fails after a first page with items
C7_Witness ==
    /\ Returned("get_azure_price")
    /\ Len(fetches) = 2
    /\ fetches[2].http.status = 500
    /\ fetches[2].ret = None
    /\ Len(Get(fetches[1].ret, "Items", <<>>)) = 2
    /\ result = Str(summary_all(2) \o price_list(fetches[1].ret["Items"]))

UnableAlerts == Str(<<"Unable to fetch alerts or no alerts found.">>)

NoActiveAlerts == Str(<<"No active alerts for this state.">>)

\* C8: get_alerts answers "Unable to fetch alerts or no alerts found."
\* exactly when the upstream gave nothing usable (an absent result, an empty
\* body, a body without a feature list), and "No active alerts for this
\* state." exactly when it gave a feature list with no feature in it.
C8_AlertsMessagesDistinct ==
    Done("get_alerts") =>
        LET http == fetches[1].http
            nodata == \/ UpstreamAbsent(http)
                      \/ http.json = EmptyDict
                      \/ "features" \notin DOMAIN http.json
            nofeature == ~nodata /\ Len(http.json["features"]) = 0
        IN  /\ Len(fetches) = 1
            /\ nodata <=> result = UnableAlerts
            /\ nofeature <=> result = NoActiveAlerts
            /\ nofeature => raised = "none"
            /\ nodata => raised = "none"

\* A 200 response whose feature list is empty
C8_Witness ==
    /\ Done("get_alerts")
    /\ args["state"] = "CA"
    /\ fetches[1].http.status = 200
    /\ fetches[1].ret = [features |-> <<>>]
    /\ result = NoActiveAlerts

UnablePoints == Str(<<"Unable to fetch forecast data for this location.">>)

UnableForecast == Str(<<"Unable to fetch detailed forecast.">>)

\* C9: get_forecast's second fetch is issued only after the first returned a
\* present response and goes to the forecast endpoint that response names;
\* an absent first fetch gives "Unable to fetch forecast data for this
\* location." with no second fetch, an absent second fetch gives "Unable to
\* fetch detailed forecast.", and a text returned otherwise is the first 5
\* periods of the forecast, formatted in order, and none of the rest.
C9_ForecastTwoDependentFetches ==
    tool = "get_forecast" =>
        /\ Len(fetches) <= 2
        /\ pc = "forecast_points" <=> Len(fetches) = 0
        /\ Len(fetches) >= 1 =>
            /\ fetches[1].url = points_url(args["latitude"], args["longitude"])
            /\ ~Truthy(fetches[1].ret) =>
                /\ Len(fetches) = 1
                /\ Returned("get_forecast")
                /\ result = UnablePoints
        /\ Len(fetches) = 2 =>
            /\ Truthy(fetches[1].ret)
            /\ fetches[2].url = fetches[1].http.json["properties"]["forecast"]
            /\ pc = "done"
            /\ ~Truthy(fetches[2].ret) => (raised = "none" /\ result = UnableForecast)
            /\ (Truthy(fetches[2].ret) /\ raised = "none") =>
                LET periods == fetches[2].http.json["properties"]["periods"]
                    n == IF Len(periods) < 5 THEN Len(periods) ELSE 5
                IN  result = Str(Join([i \in 1..n |-> format_period(periods[i])], <<"\n---\n">>))
        /\ Returned("get_forecast") /\ result = UnablePoints => Len(fetches) = 1
        /\ Returned("get_forecast") /\ result = UnableForecast => Len(fetches) = 2

\* A forecast of six periods, the sixth lacking the fields the handler
\* prints: five are formatted and the sixth is never read
C9_Witness ==
    /\ Returned("get_forecast")
    /\ Len(fetches) = 2
    /\ Truthy(fetches[2].ret)
    /\ Len(fetches[2].ret["properties"]["periods"]) = 6
    /\ fetches[2].ret["properties"]["periods"][1] # fetches[2].ret["properties"]["periods"][2]
    /\ format_period_raises(fetches[2].ret["properties"]["periods"][6])
    /\ result = Str(Join([i \in 1..5 |-> format_period(fetches[2].ret["properties"]["periods"][i])],
                         <<"\n---\n">>))

\* C10 as stated: for every upstream behaviour, a cursor chain that cycles
\* back to an earlier page included, one price lookup issues at most 3
\* fetches, fetches no page twice, and ends with a text result.
C10_AtMostOnceEachPage ==
    tool = "get_azure_price" =>
        /\ Len(fetches) <= max_pages
        /\ \A i, j \in DOMAIN fetches : i # j => fetches[i].url # fetches[j].url
        /\ pc = "price_fetch" => page_count < max_pages
        /\ pc = "done" => (raised = "none" /\ result # None)

\* C10 as amended: one price lookup issues at most 3 fetches, one per pass
\* of its loop; every fetch after the first goes to the cursor of the
\* present response before it, so a fetch that returned absent is never
\* issued again; the loop cannot pass the page cap and the lookup ends with a
\* text result. (A cursor that leads back to an earlier page is followed.)
C10_BoundedFetchesNoRetry ==
    tool = "get_azure_price" =>
        /\ Len(fetches) = page_count
        /\ page_count <= max_pages
        /\ Len(fetches) >= 1 => fetches[1].url = base_url(args["filter_expression"])
        /\ \A i \in 1..(Len(fetches) - 1) :
            /\ Truthy(fetches[i].ret)
            /\ Truthy(CursorOf(i))
            /\ fetches[i + 1].url = CursorOf(i)
        /\ pc \in {"price_fetch", "done"}
        /\ pc = "price_fetch" => (page_count < max_pages /\ Truthy(next_page_url))
        /\ page_count = max_pages => pc = "done"
        /\ pc = "done" => (raised = "none" /\ result # None /\ Len(result.str) >= 1)

\* A cursor that cycles: the three fetches all go to the first page's URL
C10_Witness ==
    /\ Returned("get_azure_price")
    /\ Len(fetches) = 3
    /\ fetches[2].url = fetches[1].url
    /\ fetches[3].url = fetches[1].url
    /\ Truthy(CursorOf(3))
    /\ HasSummary(result, summary_limited(Len(all_items)))

====
